---- MODULE Spec2Model ----
(***************************************************************************)
(* Model of the configuration tree operations of synflownet/config.py:     *)
(* the dataclass schemas Config and OptimizerConfig, init_empty and        *)
(* override_config.  Dataclass instances live in a heap so that object     *)
(* identity (which instance a field refers to) is part of the state.       *)
(***************************************************************************)
EXTENDS Integers, Sequences, FiniteSets, TLC

VARIABLES heap, inits, prevop, last

vars == <<heap, inits, prevop, last>>

(***************************************************************************)
(* Bounds                                                                  *)
(***************************************************************************)
\* override values are the scalars 1..MaxScalar (and mappings)
MaxScalar == 2
\* an overrides mapping has at most MaxEntries entries, nested ones included
MaxEntries == 3
\* init_empty is called at most MaxInits times (each call allocates objects)
MaxInits == 2

(***************************************************************************)
(* Values a field can hold                                                 *)
(***************************************************************************)
\* omegaconf.MISSING, the sentinel
MISSING == [tag |-> "MISSING"]
\* Python None
None == [tag |-> "None"]
\* a number, string or boolean, coded as an integer
Scalar(n) == [tag |-> "scalar", v |-> n]
\* a reference to the dataclass instance stored at heap[i]
Node(i) == [tag |-> "node", id |-> i]
\* a dict, as the sequence of its (key, value) items in iteration order
Dict(items) == [tag |-> "dict", items |-> items]

(***************************************************************************)
(* Default values.  Floats are coded by their decimal exponent.            *)
(***************************************************************************)
\* seed: int = 0
seed_default == 0
\* learning_rate: float = 1e-4
learning_rate_default == -4
\* weight_decay: float = 1e-8
weight_decay_default == -8

(***************************************************************************)
(* Schemas: the declared fields of each dataclass, in declaration order.   *)
(* The scalar fields of a class are all handled alike, and so are the      *)
(* nested ones: of Config, seed and opt are kept; of OptimizerConfig,      *)
(* learning_rate and weight_decay.                                         *)
(***************************************************************************)
OptimizerConfigFields ==
    << [name |-> "learning_rate", type |-> "float", default |-> Scalar(learning_rate_default)],
       [name |-> "weight_decay", type |-> "float", default |-> Scalar(weight_decay_default)] >>

\* opt: OptimizerConfig = field(default_factory=OptimizerConfig)
ConfigFields ==
    << [name |-> "seed", type |-> "int", default |-> Scalar(seed_default)],
       [name |-> "opt", type |-> "OptimizerConfig", default |-> None] >>

DataclassTypes == {"Config", "OptimizerConfig"}

\* dataclasses.fields(cls)
fields(T) ==
    CASE T = "Config" -> ConfigFields
      [] T = "OptimizerConfig" -> OptimizerConfigFields
      [] OTHER -> << >>

FieldNames(T) == {fields(T)[i].name : i \in 1..Len(fields(T))}

FieldOf(T, name) == CHOOSE f \in {fields(T)[i] : i \in 1..Len(fields(T))} : f.name = name

\* dataclasses.is_dataclass applied to a field's declared type
is_dataclass_type(t) == t \in DataclassTypes

\* dataclasses.is_dataclass applied to a value
is_dataclass(v) == v.tag = "node"

(***************************************************************************)
(* The heap: heap[i] is the dataclass instance with identity i, a record   *)
(* of its class and its attribute values, or Freed once nothing refers to  *)
(* the instance any more.  Identities are not reused.                      *)
(***************************************************************************)
Freed == [type |-> "freed", attrs |-> << >>]

getattr(h, id, name) == h[id].attrs[name]

hasattr(h, id, name) == name \in DOMAIN h[id].attrs

setattr(h, id, name, value) == [h EXCEPT ![id].attrs[name] = value]

\* T(): the generated __init__ allocates the instance and then fills its
\* fields in order, calling default_factory for the nested ones
RECURSIVE Construct(_, _)
RECURSIVE ConstructFrom(_, _, _)
ConstructFrom(h, id, i) ==
    LET T == h[id].type
    IN  IF i > Len(fields(T)) THEN h
        ELSE LET f == fields(T)[i]
             IN  IF is_dataclass_type(f.type)
                 THEN LET c == Construct(h, f.type)
                      IN  ConstructFrom(setattr(c.heap, id, f.name, Node(c.id)), id, i + 1)
                 ELSE ConstructFrom(setattr(h, id, f.name, f.default), id, i + 1)

Construct(h, T) ==
    LET id == Len(h) + 1
        blank == [type |-> T, attrs |-> [n \in FieldNames(T) |-> None]]
    IN  [heap |-> ConstructFrom(Append(h, blank), id, 1), id |-> id]

(***************************************************************************)
(* init_empty(cfg)                                                         *)
(***************************************************************************)
RECURSIVE init_empty(_, _)
RECURSIVE init_empty_from(_, _, _)
\* init_empty with the fresh nested instance left at its defaults
init_empty_from_shallow(h, id, i) ==
    LET T == h[id].type
    IN  IF i > Len(fields(T)) THEN h
        ELSE LET f == fields(T)[i]
             IN  IF is_dataclass_type(f.type)
                 THEN LET c == Construct(h, f.type)
                      IN  init_empty_from(setattr(c.heap, id, f.name, Node(c.id)), id, i + 1)
                 ELSE init_empty_from(setattr(h, id, f.name, MISSING), id, i + 1)

\* init_empty blanking the nested instance the field already holds
init_empty_from_reuse(h, id, i) ==
    LET T == h[id].type
    IN  IF i > Len(fields(T)) THEN h
        ELSE LET f == fields(T)[i]
             IN  IF is_dataclass_type(f.type) /\ is_dataclass(getattr(h, id, f.name))
                 THEN init_empty_from(init_empty(h, getattr(h, id, f.name).id), id, i + 1)
                 ELSE init_empty_from(setattr(h, id, f.name, MISSING), id, i + 1)

\* init_empty leaving alone the scalar fields that no longer hold their default
init_empty_from_keep_set(h, id, i) ==
    LET T == h[id].type
    IN  IF i > Len(fields(T)) THEN h
        ELSE LET f == fields(T)[i]
             IN  IF is_dataclass_type(f.type)
                 THEN LET c == Construct(h, f.type)
                          e == init_empty(c.heap, c.id)
                      IN  init_empty_from(setattr(e, id, f.name, Node(c.id)), id, i + 1)
                 ELSE IF getattr(h, id, f.name) = f.default
                      THEN init_empty_from(setattr(h, id, f.name, MISSING), id, i + 1)
                      ELSE init_empty_from(h, id, i + 1)

\* init_empty storing MISSING in the nested fields too
init_empty_from_flat(h, id, i) ==
    LET T == h[id].type
    IN  IF i > Len(fields(T)) THEN h
        ELSE init_empty_from(setattr(h, id, fields(T)[i].name, MISSING), id, i + 1)

init_empty_from(h, id, i) ==
    LET T == h[id].type
    IN  IF i > Len(fields(T)) THEN h
        ELSE LET f == fields(T)[i]
             IN  IF is_dataclass_type(f.type)
                 THEN LET c == Construct(h, f.type)
                          e == init_empty(c.heap, c.id)
                      IN  init_empty_from(setattr(e, id, f.name, Node(c.id)), id, i + 1)
                 ELSE init_empty_from(setattr(h, id, f.name, MISSING), id, i + 1)

init_empty(h, id) == init_empty_from(h, id, 1)

(***************************************************************************)
(* override_config(cfg, overrides)                                         *)
(* The result is the heap and the exception raised, if any: the source     *)
(* line that raised it and the path of keys being processed at the time.   *)
(***************************************************************************)
NoExc == [exc |-> "none", line |-> 0, at |-> << >>]

\* overrides.items() on a value that is not a mapping
ItemsError == [exc |-> "AttributeError", line |-> 147, at |-> << >>]

\* getattr(cfg, key) on a key that is not an attribute of cfg
GetattrError(key) == [exc |-> "AttributeError", line |-> 148, at |-> <<key>>]

Within(key, e) == [e EXCEPT !.at = <<key>> \o @]

RECURSIVE override_config(_, _, _)
RECURSIVE override_config_from(_, _, _, _)
\* override_config overriding a newly constructed nested instance
override_config_from_fresh(h, id, items, i) ==
    IF i > Len(items) THEN [heap |-> h, raised |-> NoExc]
    ELSE LET key == items[i][1]
             value == items[i][2]
         IN  IF ~hasattr(h, id, key)
             THEN [heap |-> h, raised |-> GetattrError(key)]
             ELSE IF is_dataclass(getattr(h, id, key))
                  THEN LET c == Construct(h, h[getattr(h, id, key).id].type)
                           r == override_config(c.heap, c.id, value)
                       IN  IF r.raised # NoExc
                           THEN [heap |-> r.heap, raised |-> Within(key, r.raised)]
                           ELSE override_config_from(setattr(r.heap, id, key, Node(c.id)),
                                                     id, items, i + 1)
                  ELSE override_config_from(setattr(h, id, key, value), id, items, i + 1)

\* override_config assigning only the fields that hold MISSING
override_config_from_only_missing(h, id, items, i) ==
    IF i > Len(items) THEN [heap |-> h, raised |-> NoExc]
    ELSE LET key == items[i][1]
             value == items[i][2]
         IN  IF ~hasattr(h, id, key)
             THEN [heap |-> h, raised |-> GetattrError(key)]
             ELSE IF is_dataclass(getattr(h, id, key))
                  THEN LET r == override_config(h, getattr(h, id, key).id, value)
                       IN  IF r.raised # NoExc
                           THEN [heap |-> r.heap, raised |-> Within(key, r.raised)]
                           ELSE override_config_from(r.heap, id, items, i + 1)
                  ELSE IF getattr(h, id, key) = MISSING
                       THEN override_config_from(setattr(h, id, key, value), id, items, i + 1)
                       ELSE override_config_from(h, id, items, i + 1)

\* override_config passing over the keys that are no attribute of cfg
override_config_from_lenient(h, id, items, i) ==
    IF i > Len(items) THEN [heap |-> h, raised |-> NoExc]
    ELSE LET key == items[i][1]
             value == items[i][2]
         IN  IF ~hasattr(h, id, key)
             THEN override_config_from(h, id, items, i + 1)
             ELSE IF is_dataclass(getattr(h, id, key))
                  THEN LET r == override_config(h, getattr(h, id, key).id, value)
                       IN  IF r.raised # NoExc
                           THEN [heap |-> r.heap, raised |-> Within(key, r.raised)]
                           ELSE override_config_from(r.heap, id, items, i + 1)
                  ELSE override_config_from(setattr(h, id, key, value), id, items, i + 1)

\* override_config recursing when the override value is a mapping, whatever
\* the field holds, and assigning otherwise
override_config_from_by_shape(h, id, items, i) ==
    IF i > Len(items) THEN [heap |-> h, raised |-> NoExc]
    ELSE LET key == items[i][1]
             value == items[i][2]
         IN  IF ~hasattr(h, id, key)
             THEN [heap |-> h, raised |-> GetattrError(key)]
             ELSE IF value.tag = "dict" /\ is_dataclass(getattr(h, id, key))
                  THEN LET r == override_config(h, getattr(h, id, key).id, value)
                       IN  IF r.raised # NoExc
                           THEN [heap |-> r.heap, raised |-> Within(key, r.raised)]
                           ELSE override_config_from(r.heap, id, items, i + 1)
                  ELSE IF value.tag = "dict" /\ value.items # << >>
                       THEN [heap |-> h, raised |-> Within(key, GetattrError(value.items[1][1]))]
                       ELSE IF value.tag = "dict"
                            THEN override_config_from(h, id, items, i + 1)
                            ELSE override_config_from(setattr(h, id, key, value), id, items, i + 1)

\* override_config refusing a mapping for a field that holds no dataclass
override_config_from_strict_shape(h, id, items, i) ==
    IF i > Len(items) THEN [heap |-> h, raised |-> NoExc]
    ELSE LET key == items[i][1]
             value == items[i][2]
         IN  IF ~hasattr(h, id, key)
             THEN [heap |-> h, raised |-> GetattrError(key)]
             ELSE IF is_dataclass(getattr(h, id, key))
                  THEN LET r == override_config(h, getattr(h, id, key).id, value)
                       IN  IF r.raised # NoExc
                           THEN [heap |-> r.heap, raised |-> Within(key, r.raised)]
                           ELSE override_config_from(r.heap, id, items, i + 1)
                  ELSE IF value.tag = "dict"
                       THEN [heap |-> h, raised |-> Within(key, ItemsError)]
                       ELSE override_config_from(setattr(h, id, key, value), id, items, i + 1)

override_config_from(h, id, items, i) ==
    IF i > Len(items) THEN [heap |-> h, raised |-> NoExc]
    ELSE LET key == items[i][1]
             value == items[i][2]
         IN  IF ~hasattr(h, id, key)
             THEN [heap |-> h, raised |-> GetattrError(key)]
             ELSE IF is_dataclass(getattr(h, id, key))
                  THEN LET r == override_config(h, getattr(h, id, key).id, value)
                       IN  IF r.raised # NoExc
                           THEN [heap |-> r.heap, raised |-> Within(key, r.raised)]
                           ELSE override_config_from(r.heap, id, items, i + 1)
                  ELSE override_config_from(setattr(h, id, key, value), id, items, i + 1)

override_config(h, id, overrides) ==
    IF overrides.tag # "dict"
    THEN [heap |-> h, raised |-> ItemsError]
    ELSE override_config_from(h, id, overrides.items, 1)

(***************************************************************************)
(* Inputs: the overrides mappings.  Keys are the declared fields of the    *)
(* node the mapping is aimed at and one undeclared name; values are        *)
(* scalars and, for a declared field, mappings, whether or not the field   *)
(* is a nested one.  A mapping given for a scalar field is the empty one;  *)
(* the value given for the undeclared name, which is never read, is one    *)
(* scalar.                                                                 *)
(***************************************************************************)
Scalars == {Scalar(n) : n \in 1..MaxScalar}

KeysOf(items) == {items[i][1] : i \in 1..Len(items)}

RECURSIVE Size(_)
Size(items) ==
    IF items = << >> THEN 0
    ELSE LET v == items[1][2]
         IN  1 + (IF v.tag = "dict" THEN Size(v.items) ELSE 0) + Size(Tail(items))

SubType(T, k) ==
    IF k \in FieldNames(T) /\ is_dataclass_type(FieldOf(T, k).type)
    THEN FieldOf(T, k).type ELSE "none"

RECURSIVE Dicts(_, _)
ValuesFor(T, k, n) ==
    IF k \in FieldNames(T)
    THEN Scalars \cup {Dict(d) : d \in Dicts(SubType(T, k), n - 1)}
    ELSE {Scalar(MaxScalar)}

Dicts(T, n) ==
    {<< >>} \cup
    IF n = 0 \/ T = "none" THEN {}
    ELSE UNION { UNION { { << <<k, v>> >> \o rest :
                             rest \in {r \in Dicts(T, n - Size(<< <<k, v>> >>)) : k \notin KeysOf(r)} } :
                         v \in ValuesFor(T, k, n) } :
                 k \in FieldNames(T) \cup {"not_a_field"} }

Overrides == Dicts("Config", MaxEntries)

(***************************************************************************)
(* Reference counting: an instance that neither cfg nor the caller refers  *)
(* to is reclaimed.                                                        *)
(***************************************************************************)
RECURSIVE Reach(_, _)
Reach(h, id) ==
    {id} \cup UNION { Reach(h, h[id].attrs[n].id) :
                      n \in {m \in DOMAIN h[id].attrs : is_dataclass(h[id].attrs[m])} }

Sweep(h, keep) == [i \in 1..Len(h) |-> IF i \in keep THEN h[i] ELSE Freed]

(***************************************************************************)
(* The program: cfg = Config(), then any sequence of calls on cfg.  While  *)
(* a call has just returned (or raised), last records the call: its name,  *)
(* its overrides argument, the exception it raised and the heap it was     *)
(* made on; prevop names the call made before it.  Across init_empty the   *)
(* caller holds on to the nested instances cfg had before the call, and    *)
(* lets go of them after the call that follows.                            *)
(***************************************************************************)
cfg == 1

NoCall == [op |-> "none", overrides |-> << >>, raised |-> NoExc, pre |-> << >>]

Init ==
    /\ heap = Construct(<< >>, "Config").heap
    /\ inits = 0
    /\ prevop = "Config"
    /\ last = NoCall

InitEmptyCall ==
    /\ last = NoCall
    /\ inits < MaxInits
    /\ LET post == init_empty(heap, cfg)
       IN  heap' = Sweep(post, Reach(post, cfg) \cup Reach(heap, cfg))
    /\ inits' = inits + 1
    /\ last' = [op |-> "init_empty", overrides |-> << >>, raised |-> NoExc, pre |-> heap]
    /\ UNCHANGED prevop

OverrideConfigCall ==
    /\ last = NoCall
    /\ \E ov \in Overrides :
        LET r == override_config(heap, cfg, Dict(ov))
        IN  /\ heap' = r.heap
            /\ last' = [op |-> "override_config", overrides |-> ov,
                        raised |-> r.raised, pre |-> heap]
    /\ UNCHANGED <<inits, prevop>>

\* the caller goes on to its next call; after an override_config it has
\* dropped the references it held to instances outside the tree
Continue ==
    /\ last # NoCall
    /\ prevop' = last.op
    /\ last' = NoCall
    /\ heap' = IF last.op = "override_config" THEN Sweep(heap, Reach(heap, cfg)) ELSE heap
    /\ UNCHANGED inits

Next == InitEmptyCall \/ OverrideConfigCall \/ Continue

Spec == Init /\ [][Next]_vars


(***************************************************************************)
(* Vocabulary of the properties                                            *)
(***************************************************************************)
Absent == [tag |-> "absent"]

\* the value found by following a path of field names from the instance id
RECURSIVE Get(_, _, _)
Get(h, id, p) ==
    IF ~hasattr(h, id, p[1]) THEN Absent
    ELSE LET v == getattr(h, id, p[1])
         IN  IF Len(p) = 1 THEN v
             ELSE IF is_dataclass(v) THEN Get(h, v.id, Tail(p)) ELSE Absent

\* the paths of the declared fields of a schema: the scalar ones, the nested ones
RECURSIVE LeafPaths(_)
LeafPaths(T) ==
    UNION { IF is_dataclass_type(f.type)
            THEN {<<f.name>> \o q : q \in LeafPaths(f.type)}
            ELSE {<<f.name>>} : f \in {fields(T)[i] : i \in 1..Len(fields(T))} }

RECURSIVE NestedPaths(_)
NestedPaths(T) ==
    UNION { IF is_dataclass_type(f.type)
            THEN {<<f.name>>} \cup {<<f.name>> \o q : q \in NestedPaths(f.type)}
            ELSE {} : f \in {fields(T)[i] : i \in 1..Len(fields(T))} }

FieldPaths(T) == LeafPaths(T) \cup NestedPaths(T)

RECURSIVE DeclaredType(_, _)
DeclaredType(T, p) ==
    IF Len(p) = 1 THEN FieldOf(T, p[1]).type ELSE DeclaredType(FieldOf(T, p[1]).type, Tail(p))

\* the paths an overrides mapping names
RECURSIVE Named(_)
Named(items) ==
    UNION { {<<items[i][1]>>} \cup
            (IF items[i][2].tag = "dict"
             THEN {<<items[i][1]>> \o q : q \in Named(items[i][2].items)}
             ELSE {}) : i \in 1..Len(items) }

IndexOf(items, k) == CHOOSE i \in 1..Len(items) : items[i][1] = k

\* the value an overrides mapping supplies for a path it names
RECURSIVE Supplied(_, _)
Supplied(items, p) ==
    LET v == items[IndexOf(items, p[1])][2]
    IN  IF Len(p) = 1 THEN v ELSE Supplied(v.items, Tail(p))

\* the paths named by the entries that come, in iteration order, before the
\* entry at path `at`
RECURSIVE NamedBefore(_, _)
NamedBefore(items, at) ==
    LET j == IndexOf(items, at[1])
    IN  Named(SubSeq(items, 1, j - 1)) \cup
        (IF Len(at) > 1
         THEN {<<at[1]>>} \cup {<<at[1]>> \o q : q \in NamedBefore(items[j][2].items, Tail(at))}
         ELSE {})

\* the entries of a mapping have been applied to the instance idpost of hpost,
\* which was the instance idpre of hpre when the call was made
RECURSIVE Applied(_, _, _, _, _)
Applied(hpre, hpost, idpre, idpost, items) ==
    \A i \in 1..Len(items) :
        LET k == items[i][1]
            v == items[i][2]
        IN  /\ hasattr(hpre, idpre, k)
            /\ IF is_dataclass(getattr(hpre, idpre, k))
               THEN /\ v.tag = "dict"
                    /\ is_dataclass(getattr(hpost, idpost, k))
                    /\ Applied(hpre, hpost, getattr(hpre, idpre, k).id,
                               getattr(hpost, idpost, k).id, v.items)
               ELSE getattr(hpost, idpost, k) = v

\* the exception the declared shape of the schema calls for: the first entry,
\* in iteration order, that names an undeclared field or gives something other
\* than a mapping for a nested field
RECURSIVE Fault(_, _)
Fault(T, items) ==
    IF items = << >> THEN NoExc
    ELSE LET k == items[1][1]
             v == items[1][2]
             sub == IF v.tag = "dict" THEN Fault(SubType(T, k), v.items) ELSE ItemsError
         IN  IF k \notin FieldNames(T) THEN GetattrError(k)
             ELSE IF SubType(T, k) # "none" /\ sub # NoExc THEN Within(k, sub)
             ELSE LET rest == Fault(T, Tail(items))
                  IN  rest

\* the tree below an instance, identities left out
RECURSIVE Tree(_, _)
Tree(h, id) ==
    [type |-> h[id].type,
     attrs |-> [n \in DOMAIN h[id].attrs |->
                  IF is_dataclass(h[id].attrs[n]) THEN Tree(h, h[id].attrs[n].id)
                  ELSE h[id].attrs[n]]]

\* the same, tabulated for the schema of cfg and for the mappings of the inputs
ConfigLeafPaths == LeafPaths("Config")
ConfigNestedPaths == NestedPaths("Config")
ConfigFieldPaths == FieldPaths("Config")
ConfigDeclaredType == [p \in ConfigFieldPaths |-> DeclaredType("Config", p)]
NamedBy == [ov \in Overrides |-> Named(ov)]
FaultOf == [ov \in Overrides |-> Fault("Config", ov)]

Returned(op) == last.op = op
Succeeded == last.raised = NoExc
UnknownFieldError == last.raised.line = 148
TypeMismatchError == last.raised.line = 147

(***************************************************************************)
(* C1: after init_empty(cfg) returns, whatever the tree held before, every *)
(* scalar-declared field at every depth is MISSING and every field         *)
(* declared as a nested dataclass holds an instance of its declared class. *)
(***************************************************************************)
C1_InitEmptyTotal ==
    Returned("init_empty") =>
        /\ \A p \in ConfigLeafPaths : Get(heap, cfg, p) = MISSING
        /\ \A p \in ConfigNestedPaths :
              /\ is_dataclass(Get(heap, cfg, p))
              /\ heap[Get(heap, cfg, p).id].type = ConfigDeclaredType[p]

\* init_empty has returned on a tree whose leaves had been overridden at both depths
C1_Witness ==
    /\ Returned("init_empty")
    /\ Get(last.pre, cfg, <<"seed">>) = Scalar(1)
    /\ Get(last.pre, cfg, <<"opt", "learning_rate">>) = Scalar(1)
    /\ Get(heap, cfg, <<"opt", "learning_rate">>) = MISSING

(***************************************************************************)
(* C2: after override_config(cfg, overrides) returns without raising,      *)
(* every field whose path overrides does not name holds the value it held  *)
(* when the call was made (for a nested field: the same instance).         *)
(***************************************************************************)
C2_OverrideFrame ==
    (Returned("override_config") /\ Succeeded) =>
        \A p \in ConfigFieldPaths \ NamedBy[last.overrides] :
            Get(heap, cfg, p) = Get(last.pre, cfg, p)

\* a nested leaf has been overridden while its sibling, overridden by an
\* earlier call, was not named
C2_Witness ==
    /\ Returned("override_config") /\ Succeeded
    /\ <<"opt", "learning_rate">> \in NamedBy[last.overrides]
    /\ <<"opt", "weight_decay">> \notin NamedBy[last.overrides]
    /\ Get(heap, cfg, <<"opt", "learning_rate">>) # Get(last.pre, cfg, <<"opt", "learning_rate">>)
    /\ Get(last.pre, cfg, <<"opt", "weight_decay">>) = Scalar(1)

(***************************************************************************)
(* C3: after override_config(cfg, overrides) returns without raising,      *)
(* every entry has been applied: an entry for a field that held a nested   *)
(* instance is a mapping whose entries have been applied to that field's   *)
(* instance, and any other entry's value is the value of its field.        *)
(***************************************************************************)
C3_OverrideApplied ==
    (Returned("override_config") /\ Succeeded) =>
        Applied(last.pre, heap, cfg, cfg, last.overrides)

\* a top-level scalar entry and a nested entry of one mapping have both
\* changed their fields
C3_Witness ==
    /\ Returned("override_config") /\ Succeeded
    /\ {<<"seed">>, <<"opt", "learning_rate">>} \subseteq NamedBy[last.overrides]
    /\ Get(last.pre, cfg, <<"seed">>) = Scalar(seed_default)
    /\ Get(heap, cfg, <<"seed">>) = Scalar(1)
    /\ Get(last.pre, cfg, <<"opt", "learning_rate">>) = Scalar(learning_rate_default)
    /\ Get(heap, cfg, <<"opt", "learning_rate">>) = Scalar(1)

(***************************************************************************)
(* C4, as claimed: when the first entry at fault of overrides is a key     *)
(* that is no declared field of the node it is aimed at, at the root or in *)
(* a nested mapping, the call raises UnknownFieldError and no field has    *)
(* been mutated, the fields named by the other keys of the mapping         *)
(* included.                                                               *)
(***************************************************************************)
RECURSIVE HasUndeclared(_, _)
HasUndeclared(T, items) ==
    \E i \in 1..Len(items) :
        \/ items[i][1] \notin FieldNames(T)
        \/ /\ SubType(T, items[i][1]) # "none"
           /\ items[i][2].tag = "dict"
           /\ HasUndeclared(SubType(T, items[i][1]), items[i][2].items)

C4_AsClaimed ==
    (Returned("override_config") /\ FaultOf[last.overrides].line = 148) =>
        /\ UnknownFieldError
        /\ heap = last.pre

(***************************************************************************)
(* C4, amended: a call whose overrides holds an undeclared key raises;     *)
(* when the undeclared key is the first entry at fault, the call raises    *)
(* UnknownFieldError at that key, the entries that come before the key in  *)
(* iteration order have been applied and stay applied, and every field     *)
(* they do not name holds the value it held when the call was made.        *)
(***************************************************************************)
RECURSIVE AppliedBefore(_, _, _, _, _, _)
AppliedBefore(hpre, hpost, idpre, idpost, items, at) ==
    LET j == IndexOf(items, at[1])
    IN  /\ Applied(hpre, hpost, idpre, idpost, SubSeq(items, 1, j - 1))
        /\ Len(at) > 1 =>
              AppliedBefore(hpre, hpost, getattr(hpre, idpre, at[1]).id,
                            getattr(hpost, idpost, at[1]).id, items[j][2].items, Tail(at))

C4_UnknownFieldNoRollback ==
    Returned("override_config") =>
        /\ HasUndeclared("Config", last.overrides) => ~Succeeded
        /\ FaultOf[last.overrides].line = 148 =>
              last.raised = FaultOf[last.overrides]
        /\ UnknownFieldError =>
              /\ AppliedBefore(last.pre, heap, cfg, cfg, last.overrides, last.raised.at)
              /\ \A p \in ConfigFieldPaths \ NamedBefore(last.overrides, last.raised.at) :
                    Get(heap, cfg, p) = Get(last.pre, cfg, p)

\* an undeclared key of a nested mapping has raised after an earlier entry
\* of that mapping had changed its field, while a later top-level entry
\* was not applied
C4_Witness ==
    /\ Returned("override_config") /\ UnknownFieldError
    /\ last.raised.at = <<"opt", "not_a_field">>
    /\ <<"opt", "learning_rate">> \in NamedBefore(last.overrides, last.raised.at)
    /\ Get(heap, cfg, <<"opt", "learning_rate">>) # Get(last.pre, cfg, <<"opt", "learning_rate">>)

(***************************************************************************)
(* C5: when the first entry at fault gives a value that is not a mapping   *)
(* for a key that holds a nested instance, the call raises                 *)
(* TypeMismatchError at that key; and whenever overrides gives a scalar    *)
(* for a key holding a nested instance, the call raises and the key still  *)
(* holds that instance.                                                    *)
(***************************************************************************)
ScalarOnNode(h, items) ==
    {p \in Named(items) : Supplied(items, p).tag # "dict" /\ is_dataclass(Get(h, cfg, p))}

C5_ScalarOnNestedRaises ==
    Returned("override_config") =>
        /\ FaultOf[last.overrides].line = 147 =>
              /\ last.raised = FaultOf[last.overrides]
              /\ last.raised.at \in ScalarOnNode(last.pre, last.overrides)
        /\ \A p \in ScalarOnNode(last.pre, last.overrides) :
              /\ ~Succeeded
              /\ Get(heap, cfg, p) = Get(last.pre, cfg, p)

\* a scalar given for opt has raised after an earlier entry had been applied
C5_Witness ==
    /\ Returned("override_config") /\ TypeMismatchError
    /\ last.raised.at = <<"opt">>
    /\ Supplied(last.overrides, <<"opt">>) = Scalar(1)
    /\ is_dataclass(Get(heap, cfg, <<"opt">>))
    /\ heap # last.pre

(***************************************************************************)
(* C6, as claimed: when overrides gives a mapping for a key that holds a   *)
(* scalar, and no other entry is at fault, the call raises                 *)
(* TypeMismatchError.                                                      *)
(***************************************************************************)
MappingOnScalar(h, items) ==
    {p \in Named(items) : /\ Supplied(items, p).tag = "dict"
                          /\ Get(h, cfg, p) # Absent
                          /\ ~is_dataclass(Get(h, cfg, p))}

C6_AsClaimed ==
    (/\ Returned("override_config")
     /\ MappingOnScalar(last.pre, last.overrides) # {}
     /\ FaultOf[last.overrides] = NoExc) => TypeMismatchError

(***************************************************************************)
(* C6, amended: a mapping given for a key that holds a scalar raises       *)
(* nothing: when no entry names an undeclared field or gives a scalar for  *)
(* a nested one, the call returns and the key holds the mapping; a         *)
(* TypeMismatchError is only ever raised at a key that holds a nested      *)
(* instance.                                                               *)
(***************************************************************************)
C6_MappingOnScalarAssigned ==
    Returned("override_config") =>
        /\ FaultOf[last.overrides] = NoExc =>
              /\ Succeeded
              /\ \A p \in MappingOnScalar(last.pre, last.overrides) :
                    Get(heap, cfg, p) = Supplied(last.overrides, p)
        /\ TypeMismatchError => is_dataclass(Get(last.pre, cfg, last.raised.at))

\* a mapping has been stored in the scalar field learning_rate of opt
C6_Witness ==
    /\ Returned("override_config") /\ Succeeded
    /\ <<"opt", "learning_rate">> \in MappingOnScalar(last.pre, last.overrides)
    /\ Get(heap, cfg, <<"opt", "learning_rate">>) = Dict(<< >>)

(***************************************************************************)
(* C7: when init_empty returns, every nested instance of the tree is one   *)
(* that did not exist when the call was made, and the nested instances the *)
(* tree had then are unchanged; a later override_config changes no         *)
(* instance outside the tree it is applied to.                             *)
(***************************************************************************)
C7_InitEmptyFresh ==
    /\ Returned("init_empty") =>
          /\ \A id \in Reach(heap, cfg) \ {cfg} : id \notin 1..Len(last.pre)
          /\ \A id \in Reach(last.pre, cfg) \ {cfg} : heap[id] = last.pre[id]
    /\ Returned("override_config") =>
          \A id \in (1..Len(heap)) \ Reach(last.pre, cfg) : heap[id] = last.pre[id]

\* after init_empty, an override has changed the new opt instance while the
\* caller still holds the old one, which had itself been overridden
C7_Witness ==
    /\ Returned("override_config")
    /\ inits > 0
    /\ Get(heap, cfg, <<"opt", "learning_rate">>) = Scalar(1)
    /\ \E id \in (1..Len(heap)) \ Reach(heap, cfg) :
          /\ heap[id].type = "OptimizerConfig"
          /\ heap[id].attrs["learning_rate"] = Dict(<< >>)

(***************************************************************************)
(* C8: init_empty called on the tree init_empty has just returned leaves   *)
(* the tree in the same state: the same shape, every leaf MISSING.         *)
(***************************************************************************)
C8_InitEmptyIdempotent ==
    (Returned("init_empty") /\ prevop = "init_empty") =>
        /\ Tree(heap, cfg) = Tree(last.pre, cfg)
        /\ \A p \in ConfigLeafPaths : Get(heap, cfg, p) = MISSING

\* the second of two init_empty calls in a row has returned, on a tree
\* that had been overridden before the first
C8_Witness ==
    /\ Returned("init_empty") /\ prevop = "init_empty"
    /\ inits = 2
    /\ heap # last.pre
    /\ \E id \in (1..Len(heap)) \ Reach(heap, cfg) : heap[id] # Freed

(***************************************************************************)
(* C9: on the tree init_empty has just returned, override_config with      *)
(* overrides shaped as the schema declares succeeds; when it succeeds the  *)
(* nested fields still hold instances of their classes, every entry has    *)
(* been applied (a top-level leaf holding MISSING is assigned directly, a  *)
(* nested entry reaches the nested leaf) and every leaf that is not named  *)
(* is still MISSING.                                                       *)
(***************************************************************************)
C9_OverrideAfterInitEmpty ==
    (Returned("override_config") /\ prevop = "init_empty") =>
        /\ FaultOf[last.overrides] = NoExc => Succeeded
        /\ Succeeded =>
              /\ \A p \in ConfigNestedPaths :
                    /\ is_dataclass(Get(heap, cfg, p))
                    /\ heap[Get(heap, cfg, p).id].type = ConfigDeclaredType[p]
              /\ Applied(last.pre, heap, cfg, cfg, last.overrides)
              /\ \A p \in ConfigLeafPaths \ NamedBy[last.overrides] :
                    Get(heap, cfg, p) = MISSING

\* right after init_empty, one mapping has set a top-level leaf and a
\* nested leaf that both held MISSING
C9_Witness ==
    /\ Returned("override_config") /\ prevop = "init_empty" /\ Succeeded
    /\ Get(last.pre, cfg, <<"seed">>) = MISSING
    /\ Get(heap, cfg, <<"seed">>) = Scalar(1)
    /\ Get(last.pre, cfg, <<"opt", "learning_rate">>) = MISSING
    /\ Get(heap, cfg, <<"opt", "learning_rate">>) = Scalar(1)
    /\ Get(heap, cfg, <<"opt", "weight_decay">>) = MISSING

(***************************************************************************)
(* C10: in every state reached from cfg = Config() by init_empty and       *)
(* override_config calls, raising ones included, every field declared as a *)
(* nested dataclass holds an instance of its declared class and every      *)
(* field declared as a scalar holds something that is no dataclass         *)
(* instance.                                                               *)
(***************************************************************************)
C10_ShapeStable ==
    /\ \A p \in ConfigNestedPaths :
          /\ is_dataclass(Get(heap, cfg, p))
          /\ heap[Get(heap, cfg, p).id].type = ConfigDeclaredType[p]
    /\ \A p \in ConfigLeafPaths :
          /\ Get(heap, cfg, p) # Absent
          /\ ~is_dataclass(Get(heap, cfg, p))

\* after init_empty, a call has given a scalar for opt and a mapping for seed
C10_Witness ==
    /\ Returned("override_config")
    /\ inits > 0
    /\ <<"opt">> \in ScalarOnNode(last.pre, last.overrides)
    /\ <<"seed">> \in MappingOnScalar(last.pre, last.overrides)
    /\ Get(heap, cfg, <<"seed">>) = Dict(<< >>)
====
